---------------------------- MODULE Spec2Model ----------------------------
(***************************************************************************)
(* A model of src/src/lzw.rs: the 12-bit LZW codec of rust-compress.       *)
(*                                                                         *)
(*   Spec      compress(X) followed by decompress of the bytes it wrote    *)
(*   DecSpec   decompress of arbitrary byte streams                        *)
(*   PackSpec  the Compressor's packer methods (encode, flush,             *)
(*             end_of_file, end_of_stream) called in any order             *)
(*                                                                         *)
(* Option<u16> is modelled as a sequence: None is <<>>, Some(v) is <<v>>.  *)
(* ReadState is a tagged tuple: <<"Empty">>, <<"One", f>>, <<"Two", f, s>>,*)
(* <<"EOF">>, <<"EOS">>.  A Vec<u8> is a sequence of 0..255.               *)
(***************************************************************************)
EXTENDS Integers, Sequences, FiniteSets, TLC

VARIABLES
    input,          \* the bytes the Read handed to compress yields
    c_pc,           \* where the caller of the Compressor stands
    c_dict,         \* Compressor.dict : HashMap<Vec<u8>, u16>
    c_key,          \* Compressor.key
    c_value,        \* Compressor.value : Option<u16>
    write_state,    \* Compressor.write_state : Option<u16>
    c_read,         \* compress: bytes_read
    c_written,      \* compress: bytes_written
    c_read_bf,      \* compress: bytes_read_before_flush
    c_written_bf,   \* compress: bytes_written_before_flush
    output,         \* the bytes written to the Write handed to the Compressor
    sent,           \* the codes passed to Compressor::encode so far, in order
    sent_len,       \* dict.len() at the call of encode, for each code of sent
    d_input,        \* the bytes the Read handed to decompress yields
    d_pc,           \* where decompress stands: idle, loop, done, panic
    d_dict,         \* Decompressor.dict : Vec<Vec<u8>>
    d_key,          \* Decompressor.key
    read_state,     \* Decompressor.read_state
    d_read,         \* decompress: bytes_read
    d_written,      \* decompress: bytes_written
    d_out           \* the bytes written to the Write handed to decompress

c_vars == <<input, c_pc, c_dict, c_key, c_value, write_state, c_read,
            c_written, c_read_bf, c_written_bf, output, sent,
            sent_len>>
d_vars == <<d_input, d_pc, d_dict, d_key, read_state, d_read, d_written, d_out>>
vars == <<c_vars, d_vars>>

---------------------------------------------------------------------------
(* Constants of the program.                                               *)

MAX_DICT_SIZE == 4090
NOOP == 4091
FLUSH_DICTIONARY == 4093
EOF == 4094
EOS == 4095

None == <<>>
Some(v) == <<v>>

---------------------------------------------------------------------------
(* Bounds of the model.                                                    *)

\* Free inputs of compress: every byte sequence over Alphabet of at most
\* MaxLen bytes.
MaxLen == 10
Alphabet == {32, 65}

\* The filling input: FillPairs distinct two-byte phrases, one dictionary
\* admission each, which take the dictionary from 256 entries to
\* MAX_DICT_SIZE + 1; then ExtraPairs more two-byte phrases that find the
\* dictionary full; then FillTail.  The loop iterations over all but the
\* last LeadPairs of the FillPairs are taken as one step (CompressBulk,
\* DecompressBulk), the others one by one.
ExtraPairs == 2
LeadPairs == 3
FillPairs == MAX_DICT_SIZE + 1 - 256
BulkPairs == FillPairs - LeadPairs

\* Streams handed to decompress in DecSpec: at most MaxGroups 3-byte groups.
MaxGroups == 2

\* Codes passed to encode in PackSpec before a finisher is called.
MaxPackCodes == 2

---------------------------------------------------------------------------
(* u8 / u16 arithmetic.                                                    *)

RECURSIVE OrBits(_, _, _)
OrBits(a, b, n) ==
    IF n = 0 THEN 0
    ELSE (IF a % 2 = 1 \/ b % 2 = 1 THEN 1 ELSE 0)
         + 2 * OrBits(a \div 2, b \div 2, n - 1)

RECURSIVE AndBits(_, _, _)
AndBits(a, b, n) ==
    IF n = 0 THEN 0
    ELSE (IF a % 2 = 1 /\ b % 2 = 1 THEN 1 ELSE 0)
         + 2 * AndBits(a \div 2, b \div 2, n - 1)

\* u8 | u8, u8 & u8
Or8(a, b) == OrBits(a, b, 8)
And8(a, b) == AndBits(a, b, 8)

\* u8 << n and u8 >> n for n < 8: the bits shifted out are dropped
Shl8(x, n) == (x * (2 ^ n)) % 256
Shr8(x, n) == x \div (2 ^ n)

\* u16::to_le_bytes, u16::from_le_bytes
ToLeBytes(v) == <<v % 256, (v \div 256) % 256>>
FromLeBytes(b) == b[1] + 256 * b[2]

---------------------------------------------------------------------------
(* The packer: Compressor::encode, flush, end_of_file, end_of_stream.      *)
(* A packer value p is [ws, out, n, sent]: write_state, the sink, the      *)
(* bytes written by the calls so far, and the codes passed to encode.      *)

\* PackGroup with the nibbles of the low byte of value in the wrong places
PackGroup_SwappedNibbles(first, value) ==
    LET f == ToLeBytes(first)
        s == ToLeBytes(value)
    IN  << f[1],
           Or8(Shl8(f[2], 4), And8(s[1], 15)),
           Or8(Shl8(Shr8(s[1], 4), 4), s[2]) >>

\* encode, the Some(first) arm: the three bytes of the pair (first, value)
PackGroup(first, value) ==
    LET f == ToLeBytes(first)
        s == ToLeBytes(value)
    IN  << f[1],
           Or8(Shl8(f[2], 4), Shr8(s[1], 4)),
           Or8(Shl8(s[1], 4), s[2]) >>

Encode(p, value) ==
    IF p.ws = None
    THEN [p EXCEPT !.ws = Some(value), !.sent = Append(@, value)]
    ELSE [p EXCEPT !.ws = None,
                   !.out = @ \o PackGroup(p.ws[1], value),
                   !.n = @ + 3,
                   !.sent = Append(@, value)]

\* flush that pads even when no code is buffered
Flush_AlwaysPads(p) == Encode(p, NOOP)

Flush(p) == IF p.ws # None THEN Encode(p, NOOP) ELSE p

\* end_of_file without its first flush
EndOfFileP_NoFirstFlush(p) == Flush(Encode(Encode(p, EOF), EOF))

EndOfFileP(p) == Flush(Encode(Encode(Flush(p), EOF), EOF))

EndOfStreamP(p) == Flush(Encode(Encode(Flush(p), EOS), EOS))

---------------------------------------------------------------------------
(* The encoder dictionary and the match loop.                              *)

\* Compressor::flush_dictionary: the 256 single-byte phrases
CInitDict == [k \in {<<n>> : n \in 0..255} |-> k[1]]

DictLen(dict) == Cardinality(DOMAIN dict)

\* compression_ratio(..) as usize: the percentage (c / u) * 100.0, computed
\* in f64 and truncated by the cast.  The loop calls it with u >= 1.
CompressionRatio(bytes_uncompressed, bytes_compressed) ==
    (bytes_compressed * 100) \div bytes_uncompressed

\* A flush test that is due when the output is larger than the input
FlushDue_Over100(size, ratio) == size > 4000 /\ ratio > 100

\* The flush test of the match loop
FlushDue(size, ratio) == size > 4000 /\ ratio > 200

\* An admission test that lets one more phrase in
HasSpace_OneMore(dict) == DictLen(dict) <= MAX_DICT_SIZE + 1

\* The admission test of the match loop
HasSpace(dict) == DictLen(dict) <= MAX_DICT_SIZE

\* EmitNoMatch as classical LZW has it: the pending code alone
EmitNoMatch_PrefixOnly(p, value, b) ==
    IF value # None THEN Encode(p, value[1]) ELSE Encode(p, b)

\* The None arm of the match on dict.get(&key): what is passed to encode
EmitNoMatch(p, value, b) ==
    LET p1 == IF value # None THEN Encode(p, value[1]) ELSE p
    IN  Encode(p1, b)

\* lens, with the size n of the dictionary for each code that p has been
\* sent since
SentWith(lens, p, n) ==
    lens \o [i \in 1..(Len(p.sent) - Len(lens)) |-> n]

\* The loop body with value left as it is on a no-match
CompressStep_KeepsValue(c, b) ==
    LET read == c.read + 1
        key == Append(c.key, b)
        found == key \in DOMAIN c.dict
        p1 == IF found THEN c.p ELSE EmitNoMatch(c.p, c.value, b)
        dict1 == IF ~found /\ HasSpace(c.dict)
                 THEN c.dict @@ (key :> DictLen(c.dict))
                 ELSE c.dict
        key1 == IF found THEN key ELSE <<>>
        value1 == IF found THEN Some(c.dict[key]) ELSE c.value
        written1 == c.written + (p1.n - c.p.n)
        size == DictLen(dict1)
        r == read - c.rbf
        w == written1 - c.wbf
        ratio == CompressionRatio(r, w)
        due == FlushDue(size, ratio)
        p2 == IF due THEN Flush(Encode(p1, FLUSH_DICTIONARY)) ELSE p1
        written2 == written1 + (p2.n - p1.n)
    IN  [dict |-> IF due THEN CInitDict ELSE dict1,
         key |-> key1,
         value |-> value1,
         p |-> p2,
         read |-> read,
         written |-> written2,
         rbf |-> IF due THEN read ELSE c.rbf,
         wbf |-> IF due THEN written2 ELSE c.wbf,
         lens |-> SentWith(SentWith(c.lens, p1, DictLen(c.dict)),
                           p2, DictLen(dict1))]

\* One iteration of the for loop of Compressor::compress on byte b.
\* c is [dict, key, value, p, rbf, wbf, read, written, lens].
CompressStep(c, b) ==
    LET read == c.read + 1
        key == Append(c.key, b)
        found == key \in DOMAIN c.dict
        p1 == IF found THEN c.p ELSE EmitNoMatch(c.p, c.value, b)
        dict1 == IF ~found /\ HasSpace(c.dict)
                 THEN c.dict @@ (key :> DictLen(c.dict))
                 ELSE c.dict
        key1 == IF found THEN key ELSE <<>>
        value1 == IF found THEN Some(c.dict[key]) ELSE None
        written1 == c.written + (p1.n - c.p.n)
        size == DictLen(dict1)
        r == read - c.rbf
        w == written1 - c.wbf
        ratio == CompressionRatio(r, w)
        due == FlushDue(size, ratio)
        p2 == IF due THEN Flush(Encode(p1, FLUSH_DICTIONARY)) ELSE p1
        written2 == written1 + (p2.n - p1.n)
    IN  [dict |-> IF due THEN CInitDict ELSE dict1,
         key |-> key1,
         value |-> value1,
         p |-> p2,
         read |-> read,
         written |-> written2,
         rbf |-> IF due THEN read ELSE c.rbf,
         wbf |-> IF due THEN written2 ELSE c.wbf,
         lens |-> SentWith(SentWith(c.lens, p1, DictLen(c.dict)),
                           p2, DictLen(dict1))]

\* The iterations of the loop on bytes[lo..hi], in order: those on
\* bytes[lo..mid], which read mid bytes, then those on bytes[mid+1..hi]
RECURSIVE CompressRange(_, _, _, _)
CompressRange(c, bytes, lo, hi) ==
    IF lo > hi THEN c
    ELSE IF lo = hi THEN CompressStep(c, bytes[lo])
    ELSE LET mid == (lo + hi) \div 2
             half == CompressRange(c, bytes, lo, mid)
         IN  IF half.read < mid THEN half
             ELSE CompressRange(half, bytes, mid + 1, hi)

\* Compressor::compress after the loop: the pending value, then flush
CompressTail(p, value) ==
    Flush(IF value # None THEN Encode(p, value[1]) ELSE p)

---------------------------------------------------------------------------
(* The decoder.                                                            *)

\* Decompressor::flush_dictionary: code n is at index n + 1
DInitDict == [n \in 1..256 |-> <<n - 1>>]

RS_Empty == <<"Empty">>
RS_EOF == <<"EOF">>
RS_EOS == <<"EOS">>

UnpackFirst(b) == FromLeBytes(<<b[1], Shr8(b[2], 4)>>)

\* The second code as spec.md 4.2 writes it: ((Y & 0x0F) << 8) | Z
UnpackSecond_HighNibbleOfY(b) ==
    FromLeBytes(<<b[3], And8(b[2], 15)>>)

UnpackSecond(b) ==
    FromLeBytes(<<Or8(Shl8(b[2], 4), Shr8(b[3], 4)), And8(b[3], 15)>>)

\* Whether self.dict[value as usize] is in range
InRange(dict, value) == value < Len(dict)

\* decode admitting a phrase after any code, a literal or not
Decode_AdmitAfterAnyCode(d, value) ==
    IF ~InRange(d.dict, value)
    THEN [d EXCEPT !.panic = TRUE]
    ELSE LET b == d.dict[value + 1]
             key == d.key \o b
         IN  IF Len(key) > 1
             THEN [d EXCEPT !.out = @ \o b, !.n = @ + Len(b),
                            !.dict = Append(@, key), !.key = <<>>]
             ELSE [d EXCEPT !.out = @ \o b, !.n = @ + Len(b), !.key = key]

\* decode without the admission of a phrase
Decode_NoAdmission(d, value) ==
    IF ~InRange(d.dict, value)
    THEN [d EXCEPT !.panic = TRUE]
    ELSE LET b == d.dict[value + 1]
             key == d.key \o b
         IN  IF Len(key) > 1 /\ value < 256
             THEN [d EXCEPT !.out = @ \o b, !.n = @ + Len(b), !.key = <<>>]
             ELSE [d EXCEPT !.out = @ \o b, !.n = @ + Len(b), !.key = key]

\* Decompressor::decode on d = [dict, key, out, n, panic]; the index
\* self.dict[value as usize] panics when value is out of range.
Decode(d, value) ==
    IF ~InRange(d.dict, value)
    THEN [d EXCEPT !.panic = TRUE]
    ELSE LET b == d.dict[value + 1]
             key == d.key \o b
         IN  IF Len(key) > 1 /\ value < 256
             THEN [d EXCEPT !.out = @ \o b, !.n = @ + Len(b),
                            !.dict = Append(@, key), !.key = <<>>]
             ELSE [d EXCEPT !.out = @ \o b, !.n = @ + Len(b), !.key = key]

DFlushDictionary(d) == [d EXCEPT !.dict = DInitDict]

\* The test that guards flush_dictionary for the second code of a group
SecondIsFlush(first, second) == first = FLUSH_DICTIONARY

\* The inner match on second, first having been handled into d1
HandleSecond(d1, first, second, two) ==
    CASE second = NOOP -> [d |-> d1, rs |-> RS_Empty]
      [] second = EOF -> [d |-> d1, rs |-> RS_EOF]
      [] second = EOS -> [d |-> d1, rs |-> RS_EOS]
      [] OTHER ->
            LET d2 == IF SecondIsFlush(first, second)
                      THEN DFlushDictionary(d1)
                      ELSE Decode(d1, second)
            IN  [d |-> d2, rs |-> IF d2.panic THEN two ELSE RS_Empty]

\* The ReadState::Two(f, s) arm on byte b3
HandleGroup(d, f, s, b3) ==
    LET b == <<f, s, b3>>
        first == UnpackFirst(b)
        second == UnpackSecond(b)
        two == <<"Two", f, s>>
    IN  CASE first = NOOP -> [d |-> d, rs |-> RS_Empty]
          [] first = EOF -> [d |-> d, rs |-> RS_EOF]
          [] first = EOS -> [d |-> d, rs |-> RS_EOS]
          [] OTHER ->
                LET d1 == IF first = FLUSH_DICTIONARY
                          THEN DFlushDictionary(d)
                          ELSE Decode(d, first)
                IN  IF d1.panic
                    THEN [d |-> d1, rs |-> two]
                    ELSE HandleSecond(d1, first, second, two)

\* The match on self.read_state for one input byte
ReadStep(d, rs, b) ==
    CASE rs[1] = "Empty" -> [d |-> d, rs |-> <<"One", b>>]
      [] rs[1] = "One" -> [d |-> d, rs |-> <<"Two", rs[2], b>>]
      [] rs[1] = "Two" -> HandleGroup(d, rs[2], rs[3], b)
      [] rs[1] = "EOF" -> [d |-> d, rs |-> RS_EOF]
      [] rs[1] = "EOS" -> [d |-> d, rs |-> RS_EOS]

\* Whether the loop of decompress has been left
Left(r) == r.d.panic \/ r.rs = RS_EOF \/ r.rs = RS_EOS

\* One iteration of the loop of decompress on r = [d, rs, read], if the
\* loop has not been left
DecompressStep(r, b) ==
    IF Left(r) THEN r
    ELSE LET q == ReadStep(r.d, r.rs, b)
         IN  [d |-> q.d, rs |-> q.rs, read |-> r.read + 1]

\* The iterations of the loop on bytes[lo..hi], in order
RECURSIVE DecompressRange(_, _, _, _)
DecompressRange(r, bytes, lo, hi) ==
    IF lo > hi THEN r
    ELSE IF lo = hi THEN DecompressStep(r, bytes[lo])
    ELSE LET mid == (lo + hi) \div 2
             half == DecompressRange(r, bytes, lo, mid)
         IN  IF Left(half) THEN half
             ELSE DecompressRange(half, bytes, mid + 1, hi)

---------------------------------------------------------------------------
(* Inputs.                                                                 *)

BoundedSeq(S, n) == UNION {[1..m -> S] : m \in 0..n}

\* Pair i of the filling input is the two bytes <<i \div 256, i % 256>>:
\* distinct pairs, so each second byte is a no-match.
FillByte(k) ==
    LET i == (k - 1) \div 2
    IN  IF k % 2 = 1 THEN i \div 256 ELSE i % 256

\* The last phrase admitted while filling, met again three times: a match
\* of the highest code followed by a no-match, then a match left pending.
LastPair == <<(FillPairs - 1) \div 256, (FillPairs - 1) % 256>>
FillTail == LastPair \o <<LastPair[1]>> \o LastPair

FillInput ==
    [k \in 1..(2 * (FillPairs + ExtraPairs)) |-> FillByte(k)] \o FillTail

Inputs == BoundedSeq(Alphabet, MaxLen) \cup {FillInput}

---------------------------------------------------------------------------
(* Spec: compress(input, output) and then decompress of what it wrote.     *)

DecoderIdle ==
    /\ d_input = <<>>
    /\ d_pc = "idle"
    /\ d_dict = <<>>
    /\ d_key = <<>>
    /\ read_state = RS_Empty
    /\ d_read = 0
    /\ d_written = 0
    /\ d_out = <<>>

\* Compressor::new (with_debug) and the locals of Compressor::compress
CompressorNew ==
    /\ c_dict = CInitDict
    /\ c_key = <<>>
    /\ c_value = None
    /\ write_state = None
    /\ c_read = 0
    /\ c_written = 0
    /\ c_read_bf = 0
    /\ c_written_bf = 0
    /\ output = <<>>
    /\ sent = <<>>
    /\ sent_len = <<>>

Init ==
    /\ input \in Inputs
    /\ c_pc = "loop"
    /\ CompressorNew
    /\ DecoderIdle

Packer == [ws |-> write_state, out |-> output, n |-> 0, sent |-> sent]

\* The Compressor and the locals of compress, as CompressStep takes them
Compressor ==
    [dict |-> c_dict, key |-> c_key, value |-> c_value, p |-> Packer,
     read |-> c_read, written |-> c_written,
     rbf |-> c_read_bf, wbf |-> c_written_bf, lens |-> sent_len]

CompressorBecomes(c) ==
    /\ c_dict' = c.dict
    /\ c_key' = c.key
    /\ c_value' = c.value
    /\ write_state' = c.p.ws
    /\ output' = c.p.out
    /\ sent' = c.p.sent
    /\ sent_len' = c.lens
    /\ c_read' = c.read
    /\ c_written' = c.written
    /\ c_read_bf' = c.rbf
    /\ c_written_bf' = c.wbf

\* The bytes of the filling input whose iterations are one step
CBulk == IF input = FillInput THEN 2 * BulkPairs ELSE 0
DBulk == IF input = FillInput THEN 3 * BulkPairs ELSE 0

\* One iteration of the loop of Compressor::compress
CompressByte ==
    /\ c_pc = "loop"
    /\ c_read < Len(input)
    /\ c_read >= CBulk
    /\ CompressorBecomes(CompressStep(Compressor, input[c_read + 1]))
    /\ UNCHANGED <<input, c_pc, d_vars>>

\* The first CBulk iterations of the loop on the filling input
CompressBulk ==
    /\ c_pc = "loop"
    /\ c_read < CBulk
    /\ CompressorBecomes(CompressRange(Compressor, input, c_read + 1, CBulk))
    /\ UNCHANGED <<input, c_pc, d_vars>>

\* Compressor::compress once the input is exhausted, up to its return
CompressReturn ==
    /\ c_pc = "loop"
    /\ c_read = Len(input)
    /\ LET p == CompressTail(Packer, c_value)
       IN  /\ write_state' = p.ws
           /\ output' = p.out
           /\ sent' = p.sent
           /\ sent_len' = SentWith(sent_len, p, DictLen(c_dict))
           /\ c_written' = c_written + p.n
    /\ c_pc' = "eof"
    /\ UNCHANGED <<input, c_dict, c_key, c_value, c_read, c_read_bf,
                   c_written_bf, d_vars>>

\* compress: w += c.end_of_file(output)
EndOfFile ==
    /\ c_pc = "eof"
    /\ LET p == EndOfFileP(Packer)
       IN  /\ write_state' = p.ws
           /\ output' = p.out
           /\ sent' = p.sent
           /\ sent_len' = SentWith(sent_len, p, DictLen(c_dict))
           /\ c_written' = c_written + p.n
    /\ c_pc' = "done"
    /\ UNCHANGED <<input, c_dict, c_key, c_value, c_read, c_read_bf,
                   c_written_bf, d_vars>>

\* decompress called on the bytes compress wrote: Decompressor::new
DecompressNew ==
    /\ c_pc = "done"
    /\ d_pc = "idle"
    /\ d_input' = output
    /\ d_pc' = "loop"
    /\ d_dict' = DInitDict
    /\ d_key' = <<>>
    /\ read_state' = RS_Empty
    /\ d_read' = 0
    /\ d_written' = 0
    /\ d_out' = <<>>
    /\ UNCHANGED c_vars

\* The Decompressor and the locals of decompress, as DecompressStep
\* takes them
Decompressor ==
    [d |-> [dict |-> d_dict, key |-> d_key, out |-> d_out, n |-> d_written,
            panic |-> FALSE],
     rs |-> read_state, read |-> d_read]

\* DecompressorBecomes without the break on ReadState::EOF / EOS
DecompressorBecomes_NoBreak(r) ==
    /\ d_dict' = r.d.dict
    /\ d_key' = r.d.key
    /\ d_out' = r.d.out
    /\ d_written' = r.d.n
    /\ read_state' = r.rs
    /\ d_read' = r.read
    /\ d_pc' = IF r.d.panic THEN "panic" ELSE "loop"

\* The break of the loop on ReadState::EOF / EOS; a panic unwinds
DecompressorBecomes(r) ==
    /\ d_dict' = r.d.dict
    /\ d_key' = r.d.key
    /\ d_out' = r.d.out
    /\ d_written' = r.d.n
    /\ read_state' = r.rs
    /\ d_read' = r.read
    /\ d_pc' = IF r.d.panic THEN "panic"
               ELSE IF r.rs = RS_EOF \/ r.rs = RS_EOS THEN "done"
               ELSE "loop"

\* One iteration of the loop of Decompressor::decompress
DecompressByte ==
    /\ d_pc = "loop"
    /\ d_read < Len(d_input)
    /\ d_read >= DBulk
    /\ DecompressorBecomes(DecompressStep(Decompressor, d_input[d_read + 1]))
    /\ UNCHANGED <<d_input, c_vars>>

\* The first DBulk iterations of the loop on what compress wrote for the
\* filling input
DecompressBulk ==
    /\ d_pc = "loop"
    /\ d_read < DBulk
    /\ DecompressorBecomes(DecompressRange(Decompressor, d_input,
                                           d_read + 1, DBulk))
    /\ UNCHANGED <<d_input, c_vars>>

\* Decompressor::decompress leaves the loop because the input is exhausted
DecompressReturn ==
    /\ d_pc = "loop"
    /\ d_read = Len(d_input)
    /\ d_pc' = "done"
    /\ UNCHANGED <<d_input, d_dict, d_key, read_state, d_read, d_written,
                   d_out, c_vars>>

Next ==
    \/ CompressByte
    \/ CompressBulk
    \/ CompressReturn
    \/ EndOfFile
    \/ DecompressNew
    \/ DecompressByte
    \/ DecompressBulk

Spec == Init /\ [][Next]_vars

---------------------------------------------------------------------------
(* DecSpec: decompress(d_input, d_out) on arbitrary byte streams.          *)

\* The codes the groups of a stream are packed from: a literal, the first
\* dynamic code, and the four control codes.
DecCodes == {32, 256, NOOP, FLUSH_DICTIONARY, EOF, EOS}

Groups == {PackGroup(a, b) : a \in DecCodes, b \in DecCodes}

RECURSIVE GroupStreams(_)
GroupStreams(n) ==
    IF n = 0 THEN {<<>>}
    ELSE LET prev == GroupStreams(n - 1)
         IN  prev \cup {s \o g : s \in prev, g \in Groups}

\* The bytes a stream may end with after its last complete group
Leftovers == {SubSeq(PackGroup(EOF, EOF), 1, k) : k \in 0..2}

\* The output of test_simple_compress and the input of
\* test_simple_decompress
S1Bytes == <<32, 2, 0, 0, 18, 0, 1, 18, 0, 32, 15, 191, 254, 255, 239>>

\* The bytes spec.md (S5) gives for the EOF frame
S5Bytes == <<15, 191, 254, 255, 239>>

DecStreams ==
    {s \o l : s \in GroupStreams(MaxGroups), l \in Leftovers}
      \cup {S1Bytes, S5Bytes}

CompressorIdle ==
    /\ input = <<>>
    /\ c_pc = "idle"
    /\ c_dict = <<>>
    /\ c_key = <<>>
    /\ c_value = None
    /\ write_state = None
    /\ c_read = 0
    /\ c_written = 0
    /\ c_read_bf = 0
    /\ c_written_bf = 0
    /\ output = <<>>
    /\ sent = <<>>
    /\ sent_len = <<>>

\* Decompressor::new (with_debug) and the locals of decompress
DecInit ==
    /\ CompressorIdle
    /\ d_input \in DecStreams
    /\ d_pc = "loop"
    /\ d_dict = DInitDict
    /\ d_key = <<>>
    /\ read_state = RS_Empty
    /\ d_read = 0
    /\ d_written = 0
    /\ d_out = <<>>

DecNext ==
    \/ DecompressByte
    \/ DecompressReturn

DecSpec == DecInit /\ [][DecNext]_vars

---------------------------------------------------------------------------
(* PackSpec: the packer methods of a Compressor, called in any order.      *)

AllCodes == 0..4095

\* Codes on both sides of every nibble and byte boundary, and the
\* reserved codes
PackSamples == {0, 15, 16, 255, 256, 1445, 2650, 4090, NOOP, EOF}

\* The codes tried after the first pair
TailCodes == {32, 256}

\* The codes a caller passes next: every pair (A, B) with A or B among
\* PackSamples, then TailCodes.
PackChoices ==
    IF Len(sent) = 0 THEN AllCodes
    ELSE IF Len(sent) = 1
         THEN (IF sent[1] \in PackSamples THEN AllCodes ELSE PackSamples)
         ELSE TailCodes

PackInit ==
    /\ input = <<>>
    /\ c_pc = "pack"
    /\ c_dict = <<>>
    /\ c_key = <<>>
    /\ c_value = None
    /\ write_state = None
    /\ c_read = 0
    /\ c_written = 0
    /\ c_read_bf = 0
    /\ c_written_bf = 0
    /\ output = <<>>
    /\ sent = <<>>
    /\ sent_len = <<>>
    /\ DecoderIdle

PackerCall(p, pc) ==
    /\ write_state' = p.ws
    /\ output' = p.out
    /\ sent' = p.sent
    /\ c_written' = c_written + p.n
    /\ c_pc' = pc
    /\ UNCHANGED <<input, c_dict, c_key, c_value, c_read, c_read_bf,
                   c_written_bf, sent_len, d_vars>>

PkEncode ==
    /\ c_pc = "pack"
    /\ Len(sent) < MaxPackCodes
    /\ \E v \in PackChoices : PackerCall(Encode(Packer, v), "pack")

PkFlush ==
    /\ c_pc = "pack"
    /\ PackerCall(Flush(Packer), "pack")

PkEndOfFile ==
    /\ c_pc = "pack"
    /\ PackerCall(EndOfFileP(Packer), "eof_done")

PkEndOfStream ==
    /\ c_pc = "pack"
    /\ PackerCall(EndOfStreamP(Packer), "eos_done")

PackNext ==
    \/ PkEncode
    \/ PkFlush
    \/ PkEndOfFile
    \/ PkEndOfStream

PackSpec == PackInit /\ [][PackNext]_vars


---------------------------------------------------------------------------
(* The claims.                                                             *)

\* The 3-byte groups of a byte stream, and the codes they unpack to
NGroups(bytes) == Len(bytes) \div 3
Group(bytes, i) == SubSeq(bytes, 3 * i - 2, 3 * i)

\* C1 (Spec): round trip.  decompress of the bytes compress(X) wrote never
\* panics, does not run out of input before the EOF code, and ends having
\* written exactly X; this for every free input, among them those that end
\* with a match pending, and for the filling input.
Thm_C1_RoundTrip ==
    /\ d_pc # "panic"
    /\ d_pc = "loop" => d_read < Len(d_input)
    /\ d_pc = "done" => (d_out = input /\ d_written = Len(input))

\* The round trip of the filling input is complete: the encoder dictionary
\* is at capacity and the input ended with a match pending.
Wit_C1_FilledRoundTrip ==
    /\ d_pc = "done"
    /\ input = FillInput
    /\ d_out = input
    /\ c_value # None
    /\ DictLen(c_dict) = MAX_DICT_SIZE + 1

\* C2 (PackSpec): packing law.  Every group of three bytes the packer wrote
\* for the codes (A, B) passed to encode unpacks, by the ReadState::Two arm
\* of decompress, to first = A and second = B.
Thm_C2_PackingLaw ==
    \A i \in 1..NGroups(output) :
        /\ UnpackFirst(Group(output, i)) = sent[2 * i - 1]
        /\ UnpackSecond(Group(output, i)) = sent[2 * i]

\* A group was written for two codes with no zero nibble
Wit_C2_GroupWritten ==
    /\ NGroups(output) >= 1
    /\ sent[1] = 2650
    /\ sent[2] = 1445

\* C3 (PackSpec): framing.  After end_of_file (end_of_stream), called with
\* the packer EMPTY or HALF, the output is whole groups, the last of which
\* holds EOF (EOS) in both slots, and the packer is EMPTY.
Thm_C3_Framing ==
    /\ c_pc = "eof_done" =>
          /\ write_state = None
          /\ Len(output) = 3 * NGroups(output)
          /\ NGroups(output) >= 1
          /\ UnpackFirst(Group(output, NGroups(output))) = EOF
          /\ UnpackSecond(Group(output, NGroups(output))) = EOF
    /\ c_pc = "eos_done" =>
          /\ write_state = None
          /\ Len(output) = 3 * NGroups(output)
          /\ NGroups(output) >= 1
          /\ UnpackFirst(Group(output, NGroups(output))) = EOS
          /\ UnpackSecond(Group(output, NGroups(output))) = EOS

\* end_of_file was called with the packer HALF(32): it padded the pending
\* code with NOOP and wrote the EOF group after it
Wit_C3_EofFromHalf ==
    /\ c_pc = "eof_done"
    /\ sent = <<32, NOOP, EOF, EOF>>
    /\ NGroups(output) = 2

\* The same for compress(X), under Spec: its output ends with the group
\* (EOF, EOF), and end_of_file finds the packer EMPTY.
Inv_FramingOfCompress ==
    /\ c_pc = "eof" => write_state = None
    /\ c_pc = "done" =>
          /\ write_state = None
          /\ Len(output) = 3 * NGroups(output)
          /\ Group(output, NGroups(output)) = PackGroup(EOF, EOF)

TenSpaces == [i \in 1..10 |-> 32]

\* C4 (Spec): scenario S1.  compress of ten bytes 0x20 passes to the packer
\* the codes 32,32, 256,32, 257,32, 32,NOOP, EOF,EOF and writes the 15 bytes
\* of S1Bytes.  A loop iteration that emits, emits the pending code (the
\* code of the matched prefix) followed by the literal of the byte just
\* read, and admits the phrase only in the dictionary; a code pending at
\* the end of the input goes out followed by NOOP.
Thm_C4_ScenarioS1 ==
    /\ [](input = TenSpaces /\ c_pc = "done" =>
            /\ sent = <<32, 32, 256, 32, 257, 32, 32, NOOP, EOF, EOF>>
            /\ output = S1Bytes
            /\ c_read = 10
            /\ c_written = 15)
    /\ [][(c_pc = "loop" /\ c_read' = c_read + 1 /\ sent' # sent) =>
            /\ c_value # None
            /\ c_value[1] = c_dict[c_key]
            /\ sent' = sent \o <<c_value[1], input[c_read']>>]_vars
    /\ [][(c_pc = "loop" /\ c_pc' = "eof" /\ c_value # None) =>
            sent' = sent \o <<c_value[1], NOOP>>]_vars

Wit_C4_TenSpacesDone ==
    /\ input = TenSpaces
    /\ c_pc = "done"
    /\ output = S1Bytes

\* C5 as claimed (PackSpec): the decoder's second code of every group
\* (X, Y, Z) is ((Y & 0x0F) << 8) | Z, and is the code the encoder packed.
Orig_C5_SecondFromYZ ==
    \A i \in 1..NGroups(output) :
        LET g == Group(output, i)
        IN  /\ UnpackFirst(g) = g[1] + 256 * (g[2] \div 16)
            /\ UnpackSecond(g) = 256 * (g[2] % 16) + g[3]
            /\ UnpackSecond(g) = sent[2 * i]

\* C5 as amended (PackSpec): for every group (X, Y, Z) the decoder's first
\* code is X | ((Y >> 4) << 8) and its second code is
\* ((Z & 0x0F) << 8) | ((Y & 0x0F) << 4) | (Z >> 4); they are the codes the
\* encoder packed.
Thm_C5_Unpack ==
    \A i \in 1..NGroups(output) :
        LET g == Group(output, i)
        IN  /\ UnpackFirst(g) = g[1] + 256 * (g[2] \div 16)
            /\ UnpackSecond(g) = 256 * (g[3] % 16) + 16 * (g[2] % 16)
                                   + (g[3] \div 16)
            /\ UnpackFirst(g) = sent[2 * i - 1]
            /\ UnpackSecond(g) = sent[2 * i]

\* A group was written whose second code is 0x5A5: Y & 0x0F = 0xA and
\* Z = 0x55
Wit_C5_SecondUnpacked ==
    /\ NGroups(output) >= 1
    /\ sent[2] = 1445
    /\ Group(output, 1)[3] = 85


\* The EOF frame: the group compress ends its output with
EofFrame == <<254, 255, 239>>

\* C6 as claimed (DecSpec): scenario S5.  decompress of the bytes
\* [15, 191, 254, 255, 239] ends normally with nothing written.
Orig_C6_FiveBytes ==
    d_input = S5Bytes =>
        /\ d_pc # "panic"
        /\ d_pc = "done" => (d_out = <<>> /\ d_written = 0)

\* C6 as amended (DecSpec): decompress of the EOF frame, which is the three
\* bytes [254, 255, 239], reads them, ends normally on ReadState::EOF and
\* writes nothing.
Thm_C6_EofFrame ==
    d_input = EofFrame =>
        /\ d_pc # "panic"
        /\ d_out = <<>>
        /\ d_written = 0
        /\ d_read = 3 => (d_pc = "done" /\ read_state = RS_EOF)

Wit_C6_EofFrameDone ==
    /\ d_input = EofFrame
    /\ d_input = PackGroup(EOF, EOF)
    /\ d_pc = "done"
    /\ d_read = 3

\* The codes of the complete groups of a stream, in code order
CodesOf(bytes) ==
    [k \in 1..(2 * NGroups(bytes)) |->
        IF k % 2 = 1 THEN UnpackFirst(Group(bytes, (k + 1) \div 2))
        ELSE UnpackSecond(Group(bytes, k \div 2))]

IsTerminal(c) == c = EOF \/ c = EOS
IsControl(c) == c = NOOP \/ c = FLUSH_DICTIONARY \/ IsTerminal(c)

\* The index of the first terminal code of codes, or 0
FirstTerminal(codes) ==
    IF \E k \in 1..Len(codes) : IsTerminal(codes[k])
    THEN CHOOSE k \in 1..Len(codes) :
            /\ IsTerminal(codes[k])
            /\ \A j \in 1..(k - 1) : ~IsTerminal(codes[j])
    ELSE 0

DecoderNew == [dict |-> DInitDict, key |-> <<>>, out |-> <<>>, n |-> 0,
               panic |-> FALSE]

\* The codes codes[1..n] handled one after the other, each by its value:
\* NOOP ignored, FLUSH_DICTIONARY by flush_dictionary, a data code by
\* decode
RECURSIVE InCodeOrder(_, _)
InCodeOrder(codes, n) ==
    IF n = 0 THEN DecoderNew
    ELSE LET d == InCodeOrder(codes, n - 1)
             c == codes[n]
         IN  IF d.panic \/ c = NOOP THEN d
             ELSE IF c = FLUSH_DICTIONARY THEN DFlushDictionary(d)
             ELSE Decode(d, c)

\* C7 as claimed (DecSpec): decompress stops at the first terminal code.
\* It consumes no byte after the group that holds the first EOF or EOS,
\* and when it is done its output is the phrases of the data codes before
\* that code, in code order (stated for the streams whose data codes are
\* all in range).
Claim_C7_StopsAtTerminal ==
    LET codes == CodesOf(d_input)
        k == FirstTerminal(codes)
        expected == InCodeOrder(codes, k - 1)
    IN  k > 0 =>
          /\ d_read <= 3 * ((k + 1) \div 2)
          /\ (d_pc = "done" /\ ~expected.panic) => d_out = expected.out

\* The code whose lookup panicked: decode was running on the group that
\* ends at byte d_read
PanicCode ==
    LET g == Group(d_input, d_read \div 3)
    IN  IF ~IsControl(UnpackFirst(g)) /\ ~InRange(d_dict, UnpackFirst(g))
        THEN UnpackFirst(g)
        ELSE UnpackSecond(g)

\* C8 as claimed (DecSpec): a code that is no control code and is not below
\* the length of the decoder dictionary never ends decompress in a panic.
Claim_C8_NoPanicOnCorrupt ==
    ~(d_pc = "panic" /\ ~IsControl(PanicCode))

\* Whether a stream ends inside a group or holds no EOF / EOS code
Truncated(bytes) ==
    \/ Len(bytes) % 3 # 0
    \/ FirstTerminal(CodesOf(bytes)) = 0

\* C9 as claimed (DecSpec): on a stream that ends inside a group, or that
\* holds no EOF or EOS code, decompress returns successfully, and its
\* output is what the loop writes on the complete groups alone.
Claim_C9_Truncated ==
    Truncated(d_input) =>
        /\ d_pc # "panic"
        /\ d_pc = "done" =>
              d_out = DecompressRange([d |-> DecoderNew, rs |-> RS_Empty,
                                       read |-> 0],
                                      d_input, 1, 3 * NGroups(d_input)).d.out


---------------------------------------------------------------------------
(* Dictionary capacity.                                                    *)

\* The codes the encoder dictionary holds
CodesIn(dict) == {dict[k] : k \in DOMAIN dict}

\* C11 (encoder capacity), as spec.md 4.1 states it: the encoder never
\* inserts a dictionary entry whose code is 4090 or more, so the highest
\* code it ever assigns is 4089.  The admission test of the loop is
\* dict.len() <= MAX_DICT_SIZE, which admits a phrase when the dictionary
\* holds 4090 entries and gives it the code 4090: the filling input
\* violates this.
Claim_C11_HighestCode4089 ==
    \A code \in CodesIn(c_dict) : code < MAX_DICT_SIZE

\* C12 (decoder capacity), as spec.md 4.2 states it: the decoder
\* dictionary never holds more than 4091 entries.  decode pushes a phrase
\* after every literal that ends one and tests no capacity, so on the
\* stream compress wrote from the filling input the decoder goes on
\* growing after the encoder has stopped.
Claim_C12_DecoderAtMost4091 ==
    Len(d_dict) <= MAX_DICT_SIZE + 1


---------------------------------------------------------------------------
(* Dictionary synchronisation.                                             *)

\* The step of decompress that completes group i and handles its codes
GroupDecoded ==
    /\ d_pc = "loop"
    /\ read_state[1] = "Two"
    /\ d_read' = d_read + 1

\* The group that step completes, and its number
GroupRead == <<read_state[2], read_state[3], d_input[d_read + 1]>>
GroupNo == (d_read + 1) \div 3

\* The decoder after the first code of that group
AfterFirst == Decode(Decompressor.d, UnpackFirst(GroupRead))

\* The encoder dictionary as it was when it held n entries is the part of
\* c_dict with the codes below n, provided it was never reset:
DictOnlyGrows ==
    \A k \in DOMAIN c_dict : k \in DOMAIN c_dict' /\ c_dict'[k] = c_dict[k]

\* ddict (code -> phrase) equals the encoder dictionary of n entries
SameDict(ddict, n) ==
    /\ Len(ddict) = n
    /\ \A j \in 1..n : ddict[j] \in DOMAIN c_dict /\ c_dict[ddict[j]] = j - 1

\* ddict holds the encoder dictionary of n entries, and nothing else
\* unless that dictionary is full
HoldsDict(ddict, n) ==
    /\ Len(ddict) >= n
    /\ n <= MAX_DICT_SIZE => Len(ddict) = n
    /\ \A j \in 1..n : ddict[j] \in DOMAIN c_dict /\ c_dict[ddict[j]] = j - 1

\* C13 as spec.md 5 states it: right after the decoder processes a data
\* code c of compress(X), its dictionary equals the encoder dictionary as
\* it was immediately before the encoder emitted c.
Orig_C13_DictBeforeEmit ==
    [][GroupDecoded =>
        /\ UnpackFirst(GroupRead) < NOOP =>
              SameDict(AfterFirst.dict, sent_len[2 * GroupNo - 1])
        /\ UnpackSecond(GroupRead) < NOOP =>
              SameDict(d_dict', sent_len[2 * GroupNo])]_vars

\* C13, amended: the encoder dictionary is never reset; right after the
\* decoder processes a first-slot data code (a pending value) its
\* dictionary holds the encoder dictionary as it was immediately before
\* the encoder emitted that code, and right after it processes a
\* second-slot data code (the literal of a no-match) it holds the encoder
\* dictionary as it was after the admission that follows the emission,
\* that is, immediately before the next code was emitted.  The two are
\* equal while the encoder dictionary is not full; once it is, the decoder
\* holds further entries above it.
Thm_C13_DictSync ==
    /\ [][DictOnlyGrows]_vars
    /\ [][GroupDecoded =>
            /\ UnpackFirst(GroupRead) < NOOP =>
                  HoldsDict(AfterFirst.dict, sent_len[2 * GroupNo - 1])
            /\ UnpackSecond(GroupRead) < NOOP =>
                  HoldsDict(d_dict', sent_len[2 * GroupNo + 1])]_vars

\* A group of two data codes has been decoded and has grown both
\* dictionaries by the same phrase
Wit_C13_BothGrown ==
    /\ d_pc = "loop"
    /\ d_read = 6
    /\ read_state = RS_Empty
    /\ sent[3] = 256
    /\ sent[4] < 256
    /\ Len(d_dict) = 258
    /\ SameDict(d_dict, 258)


---------------------------------------------------------------------------
(* NOOP on the wire.                                                       *)

\* The codes in the two slots of group i of what compress has written
FirstSlot(i) == UnpackFirst(Group(output, i))
SecondSlot(i) == UnpackSecond(Group(output, i))

\* C14 as spec.md 6 states it: once compress has returned, NOOP is in no
\* first slot, and in the second slot only of the terminal group (the
\* last group of the stream, which holds EOF) or of a group whose first
\* slot is the FLUSH_DICTIONARY that induced a packer flush.
Orig_C14_NoopInTerminalGroup ==
    c_pc = "done" =>
        \A i \in 1..NGroups(output) :
            /\ FirstSlot(i) # NOOP
            /\ SecondSlot(i) = NOOP =>
                  \/ i = NGroups(output)
                  \/ FirstSlot(i) = FLUSH_DICTIONARY

\* C14, amended: in what compress writes, NOOP is in no first slot, and in
\* the second slot only of the last data group, written by the flush after
\* the loop when a code is pending, which is the group immediately before
\* the terminal (EOF, EOF) group, or of a group whose first slot is the
\* FLUSH_DICTIONARY that induced a packer flush.
Thm_C14_NoopPlacement ==
    \A i \in 1..NGroups(output) :
        /\ FirstSlot(i) # NOOP
        /\ SecondSlot(i) = NOOP =>
              \/ c_pc = "eof" /\ i = NGroups(output)
              \/ c_pc = "done" /\ i = NGroups(output) - 1
              \/ FirstSlot(i) = FLUSH_DICTIONARY

\* compress has returned and the group before the terminal one holds a
\* pending code and NOOP
Wit_C14_NoopBeforeTerminal ==
    /\ c_pc = "done"
    /\ NGroups(output) >= 3
    /\ FirstSlot(NGroups(output) - 1) >= 256
    /\ SecondSlot(NGroups(output) - 1) = NOOP
    /\ FirstSlot(NGroups(output)) = EOF


---------------------------------------------------------------------------
(* Control codes in the decoder.                                           *)

\* C15 as spec.md 4.2 states it (DecSpec): when the decoder has handled a
\* group (FLUSH_DICTIONARY, NOOP), its dictionary is the 256 literals and
\* its key is empty.  Decompressor::flush_dictionary resets dict and
\* leaves key as it is, so a FLUSH_DICTIONARY after a pending literal
\* violates this.
Claim_C15_FlushClearsKey ==
    \A i \in 1..NGroups(d_input) :
        ( /\ d_pc = "loop"
          /\ d_read = 3 * i
          /\ read_state = RS_Empty
          /\ UnpackFirst(Group(d_input, i)) = FLUSH_DICTIONARY
          /\ UnpackSecond(Group(d_input, i)) = NOOP )
        => d_dict = DInitDict /\ d_key = <<>>

\* C16 as spec.md 4.2 states it (DecSpec): a FLUSH_DICTIONARY in the
\* second slot after a literal in the first resets the dictionary and is
\* not looked up; a literal in the second slot after a FLUSH_DICTIONARY in
\* the first is decoded and written.  The second match tests first, not
\* second, so both parts fail.
Claim_C16_SlotIndependent ==
    [][GroupDecoded =>
        /\ ( /\ UnpackFirst(GroupRead) < 256
             /\ UnpackSecond(GroupRead) = FLUSH_DICTIONARY )
           => d_pc' # "panic" /\ d_dict' = DInitDict
        /\ ( /\ UnpackFirst(GroupRead) = FLUSH_DICTIONARY
             /\ UnpackSecond(GroupRead) < 256 )
           => d_out' = Append(d_out, UnpackSecond(GroupRead))]_vars

\* codes without its NOOPs
WithoutNoop(codes) == SelectSeq(codes, LAMBDA c : c # NOOP)

\* C17 as spec.md 4.2 states it (DecSpec): on a stream of complete groups
\* of data codes and NOOPs, once every group is consumed the output and
\* the dictionary are those of decoding the codes with every NOOP removed
\* (stated for the streams on which that decoding meets no code out of
\* range).  A NOOP in the first slot makes the decoder drop the second
\* code of the group, so a data code after it is lost.
Claim_C17_NoopIgnored ==
    LET codes == CodesOf(d_input)
        kept == WithoutNoop(codes)
        ref == InCodeOrder(kept, Len(kept))
    IN  ( /\ \A k \in 1..Len(codes) :
                ~IsTerminal(codes[k]) /\ codes[k] # FLUSH_DICTIONARY
          /\ ~ref.panic
          /\ d_pc = "loop"
          /\ d_read >= 3 * NGroups(d_input) )
        => d_out = ref.out /\ d_dict = ref.dict


---------------------------------------------------------------------------
(* The encoder: match state, reserved codes, the flush test.               *)

\* C18 (Spec): at the end of every iteration of the loop of
\* Compressor::compress, and from then on, key is empty with value None,
\* or key is a phrase of the dictionary and value is Some of its code.
Thm_C18_MatchState ==
    \/ c_key = <<>> /\ c_value = None
    \/ c_key \in DOMAIN c_dict /\ c_value = Some(c_dict[c_key])

\* An iteration has ended on a match of a phrase of three bytes
Wit_C18_LongMatch ==
    /\ c_pc = "loop"
    /\ c_read > 0
    /\ Len(c_key) = 3
    /\ c_value # None
    /\ c_value[1] >= 256

\* C19 (Spec): the encoder dictionary holds at most 4091 entries, its
\* codes are exactly 0 .. dict.len() - 1 (so each is below NOOP = 4091),
\* a phrase admitted by an iteration gets the size of the dictionary as
\* its code, and the pending value and every code the loop has passed to
\* encode are below 4091.
Thm_C19_ReservedCodes ==
    /\ [](/\ DictLen(c_dict) <= MAX_DICT_SIZE + 1
          /\ CodesIn(c_dict) = 0..(DictLen(c_dict) - 1)
          /\ c_value # None => c_value[1] < NOOP
          /\ c_pc = "loop" => \A k \in 1..Len(sent) : sent[k] < NOOP)
    /\ [][(c_pc = "loop" /\ c_read' = c_read + 1) =>
            \A k \in DOMAIN c_dict' \ DOMAIN c_dict :
                c_dict'[k] = DictLen(c_dict)]_vars

\* The dictionary is full and the loop has emitted its highest code
Wit_C19_FullAndHighestSent ==
    /\ c_pc = "loop"
    /\ DictLen(c_dict) = MAX_DICT_SIZE + 1
    /\ \E k \in 1..Len(sent) : sent[k] = MAX_DICT_SIZE

\* The operands of the flush test as the iteration that has just ended
\* evaluated it
TestRead == c_read - c_read_bf
TestWritten == c_written - c_written_bf

\* C20 (Spec): at every evaluation of the flush test the packer is EMPTY
\* and 2 * w <= 3 * r, so the truncated percentage is at most 150 and the
\* test is false; compress never passes FLUSH_DICTIONARY to encode, never
\* moves its before-flush counters, and never removes or renumbers a
\* phrase of its dictionary.
Thm_C20_FlushNeverDue ==
    /\ []((c_pc = "loop" /\ c_read > 0) =>
            /\ write_state = None
            /\ 2 * TestWritten <= 3 * TestRead
            /\ CompressionRatio(TestRead, TestWritten) <= 150
            /\ ~FlushDue(DictLen(c_dict),
                         CompressionRatio(TestRead, TestWritten)))
    /\ [](/\ \A k \in 1..Len(sent) : sent[k] # FLUSH_DICTIONARY
          /\ c_read_bf = 0
          /\ c_written_bf = 0)
    /\ [][c_pc = "loop" => DictOnlyGrows]_vars

\* A flush test with more than 4000 phrases and the percentage at 150
Wit_C20_LargeDictAt150 ==
    /\ c_pc = "loop"
    /\ c_read > 0
    /\ DictLen(c_dict) > 4000
    /\ CompressionRatio(TestRead, TestWritten) = 150

=============================================================================
